---------------------------- MODULE Spec2Model ----------------------------
(***************************************************************************)
(* A model of src/pages/index.tsx (zuplo/supabase-jwt): the Home component *)
(* with its credential fields, the key guard checkForServiceRole, the      *)
(* memoised Supabase client, the auth-event subscription, the session, and *)
(* the session panel with its Logout button and its claims display.        *)
(*                                                                         *)
(* JavaScript strings are TLA+ strings; SubSeq(s, i, i) is the i-th        *)
(* character.  The result of atob is a binary string, kept as the sequence *)
(* of its character codes.                                                 *)
(***************************************************************************)
EXTENDS Integers, Sequences, FiniteSets, TLC

(***************************************************************************)
(* Completion records of a JavaScript call: a returned value or a throw.   *)
(***************************************************************************)
Return(v) == [thrown |-> FALSE, value |-> v]

Throw(m) == [thrown |-> TRUE, message |-> m]

(***************************************************************************)
(* Characters and character codes: printable ASCII, 32..126, without the   *)
(* grave accent (96), which a TLA+ string cannot hold.                     *)
(***************************************************************************)
AsciiLow ==
  " !\"#$%&'()*+,-./0123456789:;<=>?@ABCDEFGHIJKLMNOPQRSTUVWXYZ[\\]^_"

AsciiHigh == "abcdefghijklmnopqrstuvwxyz{|}~"

CharAt(s, i) == SubSeq(s, i, i)

Code(c) ==
  IF \E i \in 1..Len(AsciiLow) : CharAt(AsciiLow, i) = c
  THEN 31 + CHOOSE i \in 1..Len(AsciiLow) : CharAt(AsciiLow, i) = c
  ELSE 96 + CHOOSE i \in 1..Len(AsciiHigh) : CharAt(AsciiHigh, i) = c

Codes(s) == [i \in 1..Len(s) |-> Code(CharAt(s, i))]

(***************************************************************************)
(* String.prototype.split("."): the segments between the dots; a string    *)
(* without a dot is one segment, the empty string is one empty segment.    *)
(***************************************************************************)
RECURSIVE splitFrom(_, _, _)
splitFrom(s, start, i) ==
  IF i > Len(s) THEN <<SubSeq(s, start, Len(s))>>
  ELSE IF CharAt(s, i) = "."
       THEN <<SubSeq(s, start, i - 1)>> \o splitFrom(s, i + 1, i + 1)
       ELSE splitFrom(s, start, i + 1)

split(s) == splitFrom(s, 1, 1)

(***************************************************************************)
(* atob: the forgiving-base64 decode of the HTML standard.  ASCII          *)
(* whitespace is removed; when the length is a multiple of 4 one or two    *)
(* trailing "=" are removed; a length of 1 modulo 4 or a character outside *)
(* A-Z a-z 0-9 + / throws (so "-" and "_" of base64url throw); 6 bits per  *)
(* character, leftover bits of the last group dropped.                     *)
(***************************************************************************)
Base64Alphabet ==
  "ABCDEFGHIJKLMNOPQRSTUVWXYZabcdefghijklmnopqrstuvwxyz0123456789+/"

IsBase64Char(c) == \E i \in 1..64 : CharAt(Base64Alphabet, i) = c

Base64Value(c) == (CHOOSE i \in 1..64 : CharAt(Base64Alphabet, i) = c) - 1

IsAsciiWhitespace(c) == c \in {" ", "\t", "\n", "\f", "\r"}

RECURSIVE stripWhitespace(_, _)
stripWhitespace(s, i) ==
  IF i > Len(s) THEN ""
  ELSE IF IsAsciiWhitespace(CharAt(s, i)) THEN stripWhitespace(s, i + 1)
       ELSE CharAt(s, i) \o stripWhitespace(s, i + 1)

stripPadding(s) ==
  IF Len(s) > 0 /\ Len(s) % 4 = 0
  THEN IF CharAt(s, Len(s)) = "=" /\ CharAt(s, Len(s) - 1) = "="
       THEN SubSeq(s, 1, Len(s) - 2)
       ELSE IF CharAt(s, Len(s)) = "="
            THEN SubSeq(s, 1, Len(s) - 1)
            ELSE s
  ELSE s

RECURSIVE decodeGroups(_, _)
decodeGroups(s, i) ==
  LET left == Len(s) - i + 1
      v(k) == Base64Value(CharAt(s, i + k))
  IN IF left <= 0 THEN <<>>
     ELSE IF left >= 4
          THEN LET n == ((v(0) * 64 + v(1)) * 64 + v(2)) * 64 + v(3)
               IN <<n \div 65536, (n \div 256) % 256, n % 256>>
                    \o decodeGroups(s, i + 4)
          ELSE IF left = 3
               THEN LET n == ((v(0) * 64 + v(1)) * 64 + v(2)) \div 4
                    IN <<n \div 256, n % 256>>
               ELSE LET n == (v(0) * 64 + v(1)) \div 16
                    IN <<n>>

\* data: the input without whitespace and padding.
decodeData(data) ==
  IF Len(data) % 4 = 1 THEN Throw("InvalidCharacterError")
  ELSE IF \E i \in 1..Len(data) : ~IsBase64Char(CharAt(data, i))
       THEN Throw("InvalidCharacterError")
       ELSE Return(decodeGroups(data, 1))

atob(s) == decodeData(stripPadding(stripWhitespace(s, 1)))

(***************************************************************************)
(* JSON.parse on the decoded text (a sequence of character codes).  A      *)
(* recursive-descent parser of the JSON grammar (ECMA-404): whitespace,    *)
(* null, true, false, numbers, strings with escapes, arrays, objects.      *)
(* Every parse step yields [ok, val, pos]: pos is the index after the      *)
(* value.  A JSON value is a record tagged by its type t.  Each step of    *)
(* the descent is an operator that is given the result of the step before. *)
(***************************************************************************)
Fail == [ok |-> FALSE]

Ok(v, p) == [ok |-> TRUE, val |-> v, pos |-> p]

JsonNull == [t |-> "null"]

JsonUndefined == [t |-> "undefined"]

JsonBool(b) == [t |-> "boolean", v |-> b]

JsonNumber(lexeme) == [t |-> "number", v |-> lexeme]

JsonString(codes) == [t |-> "string", v |-> codes]

JsonArray(items) == [t |-> "array", v |-> items]

JsonObject(members) == [t |-> "object", v |-> members]

IsJsonWhitespace(c) == c \in {32, 9, 10, 13}

IsDigit(c) == c \in 48..57

HexValue(c) ==
  IF c \in 48..57 THEN c - 48
  ELSE IF c \in 65..70 THEN c - 55
  ELSE IF c \in 97..102 THEN c - 87
  ELSE -1

RECURSIVE skipWs(_, _)
skipWs(t, i) ==
  IF i <= Len(t) /\ IsJsonWhitespace(t[i]) THEN skipWs(t, i + 1) ELSE i

RECURSIVE digitsEnd(_, _)
digitsEnd(t, i) ==
  IF i <= Len(t) /\ IsDigit(t[i]) THEN digitsEnd(t, i + 1) ELSE i

HasPrefix(t, i, lit) ==
  /\ i + Len(lit) - 1 <= Len(t)
  /\ SubSeq(t, i, i + Len(lit) - 1) = lit

Is(t, i, c) == i <= Len(t) /\ t[i] = c

\* \uXXXX at i (the backslash): the code unit, or -1.
unicodeEscape(t, i) ==
  IF i + 5 <= Len(t) /\ \A k \in 2..5 : HexValue(t[i + k]) >= 0
  THEN ((HexValue(t[i + 2]) * 16 + HexValue(t[i + 3])) * 16
          + HexValue(t[i + 4])) * 16 + HexValue(t[i + 5])
  ELSE -1

\* The character a two-character escape \e stands for, or -1.
simpleEscape(e) ==
  IF e \in {34, 92, 47} THEN e
  ELSE IF e = 98 THEN 8
  ELSE IF e = 102 THEN 12
  ELSE IF e = 110 THEN 10
  ELSE IF e = 114 THEN 13
  ELSE IF e = 116 THEN 9
  ELSE -1

\* The characters of a string after its opening quote, up to the closing one.
RECURSIVE parseString(_, _, _)
parseString(t, i, acc) ==
  IF i > Len(t) THEN Fail
  ELSE IF t[i] = 34 THEN Ok(acc, i + 1)
  ELSE IF t[i] < 32 THEN Fail
  ELSE IF t[i] # 92 THEN parseString(t, i + 1, Append(acc, t[i]))
  ELSE IF i + 1 > Len(t) THEN Fail
  ELSE IF t[i + 1] = 117
       THEN IF unicodeEscape(t, i) < 0 THEN Fail
            ELSE parseString(t, i + 6, Append(acc, unicodeEscape(t, i)))
       ELSE IF simpleEscape(t[i + 1]) < 0 THEN Fail
            ELSE parseString(t, i + 2, Append(acc, simpleEscape(t[i + 1])))

\* A number is -? (0 | [1-9][0-9]*) (. [0-9]+)? ([eE] [+-]? [0-9]+)? ; it
\* starts at i, its exponent's digits start at s and end before d.
numberExponent(t, i, s, d) ==
  IF d > s THEN Ok(JsonNumber(SubSeq(t, i, d - 1)), d) ELSE Fail

\* c: the index after the fraction.
numberFraction(t, i, c) ==
  IF Is(t, c, 101) \/ Is(t, c, 69)
  THEN IF Is(t, c + 1, 43) \/ Is(t, c + 1, 45)
       THEN numberExponent(t, i, c + 2, digitsEnd(t, c + 2))
       ELSE numberExponent(t, i, c + 1, digitsEnd(t, c + 1))
  ELSE Ok(JsonNumber(SubSeq(t, i, c - 1)), c)

\* b: the index after the integer part; c: after the digits behind a "." at b.
numberPoint(t, i, b, c) ==
  IF c > b + 1 THEN numberFraction(t, i, c) ELSE Fail

\* a: the index of the first digit; b: the index after the integer part.
numberInteger(t, i, a, b) ==
  IF b = a THEN Fail
  ELSE IF Is(t, b, 46) THEN numberPoint(t, i, b, digitsEnd(t, b + 1))
  ELSE numberFraction(t, i, b)

numberDigits(t, i, a) ==
  IF Is(t, a, 48) THEN numberInteger(t, i, a, a + 1)
  ELSE numberInteger(t, i, a, digitsEnd(t, a))

parseNumber(t, i) ==
  IF Is(t, i, 45) THEN numberDigits(t, i, i + 1) ELSE numberDigits(t, i, i)

stringValue(r) == IF r.ok THEN Ok(JsonString(r.val), r.pos) ELSE Fail

RECURSIVE parseValue(_, _), valueAt(_, _), objectAt(_, _), arrayAt(_, _),
          parseElements(_, _, _), elementParsed(_, _, _), elementEnd(_, _, _),
          parseMembers(_, _, _), memberName(_, _, _), memberNamed(_, _, _),
          memberColon(_, _, _, _), memberParsed(_, _, _, _),
          memberEnd(_, _, _)

parseValue(t, i) == valueAt(t, skipWs(t, i))

\* i: the index of the value's first character.
valueAt(t, i) ==
  IF i > Len(t) THEN Fail
  ELSE IF t[i] = 34 THEN stringValue(parseString(t, i + 1, <<>>))
  ELSE IF t[i] = 123 THEN objectAt(t, skipWs(t, i + 1))
  ELSE IF t[i] = 91 THEN arrayAt(t, skipWs(t, i + 1))
  ELSE IF HasPrefix(t, i, <<116, 114, 117, 101>>)
       THEN Ok(JsonBool(TRUE), i + 4)
  ELSE IF HasPrefix(t, i, <<102, 97, 108, 115, 101>>)
       THEN Ok(JsonBool(FALSE), i + 5)
  ELSE IF HasPrefix(t, i, <<110, 117, 108, 108>>)
       THEN Ok(JsonNull, i + 4)
  ELSE parseNumber(t, i)

\* j: the index after "{" and whitespace.
objectAt(t, j) ==
  IF Is(t, j, 125) THEN Ok(JsonObject(<<>>), j + 1)
  ELSE parseMembers(t, j, <<>>)

\* j: the index after "[" and whitespace.
arrayAt(t, j) ==
  IF Is(t, j, 93) THEN Ok(JsonArray(<<>>), j + 1)
  ELSE parseElements(t, j, <<>>)

\* value (, value)* ]
parseElements(t, i, acc) == elementParsed(t, acc, parseValue(t, i))

elementParsed(t, acc, r) ==
  IF ~r.ok THEN Fail
  ELSE elementEnd(t, Append(acc, r.val), skipWs(t, r.pos))

elementEnd(t, items, j) ==
  IF Is(t, j, 93) THEN Ok(JsonArray(items), j + 1)
  ELSE IF Is(t, j, 44) THEN parseElements(t, j + 1, items)
  ELSE Fail

\* "name" : value (, "name" : value)* }
parseMembers(t, i, acc) == memberName(t, acc, skipWs(t, i))

memberName(t, acc, i) ==
  IF Is(t, i, 34)
  THEN memberNamed(t, acc, parseString(t, i + 1, <<>>))
  ELSE Fail

\* k: the parsed name.
memberNamed(t, acc, k) ==
  IF ~k.ok THEN Fail
  ELSE memberColon(t, acc, k.val, skipWs(t, k.pos))

\* c: the index after the name and whitespace.
memberColon(t, acc, name, c) ==
  IF Is(t, c, 58) THEN memberParsed(t, acc, name, parseValue(t, c + 1))
  ELSE Fail

memberParsed(t, acc, name, r) ==
  IF ~r.ok THEN Fail
  ELSE memberEnd(t, Append(acc, <<name, r.val>>), skipWs(t, r.pos))

memberEnd(t, members, j) ==
  IF Is(t, j, 125) THEN Ok(JsonObject(members), j + 1)
  ELSE IF Is(t, j, 44) THEN parseMembers(t, j + 1, members)
  ELSE Fail

\* r: the value parsed at the start of text; nothing but whitespace may follow.
parsedWhole(text, r) ==
  IF r.ok /\ skipWs(text, r.pos) > Len(text)
  THEN Return(r.val)
  ELSE Throw("SyntaxError")

JSONparse(text) == parsedWhole(text, parseValue(text, 1))

(***************************************************************************)
(* data.role: reading a property of a parsed value.  null has no           *)
(* properties and the read throws a TypeError; an object yields the value  *)
(* of its last member of that name, or undefined; a string, number,        *)
(* boolean or array has no property "role" and yields undefined.           *)
(***************************************************************************)
lastMember(members, hits) ==
  IF hits = {} THEN Return(JsonUndefined)
  ELSE Return(members[CHOOSE i \in hits : \A j \in hits : j <= i][2])

getProperty(data, name) ==
  IF data.t = "null" THEN Throw("TypeError")
  ELSE IF data.t # "object" THEN Return(JsonUndefined)
  ELSE lastMember(data.v, {i \in 1..Len(data.v) : data.v[i][1] = Codes(name)})

\* value === "literal"
strictEqualsString(value, literal) ==
  value.t = "string" /\ value.v = Codes(literal)

(***************************************************************************)
(* checkForServiceRole (index.tsx 143-156).  The statements of the try     *)
(* block are roleIsServiceRole (line 152), parsePayload (151) and          *)
(* decodePayload (150), each given the completion of the one before it;    *)
(* catchReturnFalse is the catch clause: any throw becomes "return false". *)
(***************************************************************************)
roleIsServiceRole(role) ==
  IF role.thrown THEN role
  ELSE Return(strictEqualsString(role.value, "service_role"))

parsePayload(data) ==
  IF data.thrown THEN data
  ELSE roleIsServiceRole(getProperty(data.value, "role"))

decodePayload(json) ==
  IF json.thrown THEN json
  ELSE parsePayload(JSONparse(json.value))

tryServiceRole(payload) == decodePayload(atob(payload))

\* Faulty variant: no catch clause, a throw of the try block leaves the function.
catchRethrow(completion) == completion

catchReturnFalse(completion) ==
  IF completion.thrown THEN Return(FALSE) ELSE completion

checkSegments(segments) ==
  IF Len(segments) # 3
  THEN Return(FALSE)       \* not a jwt, but not the service role either then
  ELSE catchReturnFalse(tryServiceRole(segments[2]))

checkForServiceRole(jwt) == checkSegments(split(jwt))

(***************************************************************************)
(* Optional values: undefined / null is None, a present value v is         *)
(* Some(v).  Falsy(o) is JavaScript's !o for an optional string.           *)
(***************************************************************************)
None == <<>>

Some(v) == <<v>>

Falsy(o) == o = None \/ o = Some("")

(***************************************************************************)
(* Bounds of the model.                                                    *)
(***************************************************************************)
\* Clients that createClient may construct in one behaviour.
MaxClients == 3

(***************************************************************************)
(* Inputs.  Keys are the strings typed into the "Anon Key" field, Urls     *)
(* those typed into the "Supabase URL" field.                              *)
(***************************************************************************)
ServiceRoleJwt == "eyJhbGciOiJIUzI1NiJ9.eyJyb2xlIjoic2VydmljZV9yb2xlIn0.sig"

AnonJwt == "eyJhbGciOiJIUzI1NiJ9.eyJyb2xlIjoiYW5vbiJ9.sig"

Keys == {"", "anon-key", AnonJwt, ServiceRoleJwt, "h.bnVsbA.s"}

Urls == {"", "https://x.supabase.co", ServiceRoleJwt}

\* Every shape of candidate the guard distinguishes (payloads in comments).
GuardInputs ==
  Keys \cup
  { "a.b", "..", "a.b.c.d",
    "h.e30.s",                                          \* {}
    "h.e30=.s",                                         \* {} , padded
    "h.NQ.s",                                           \* 5
    "h.InNlcnZpY2Vfcm9sZSI.s",                          \* "service_role"
    "h.eyJyb2xl.s",                                     \* {"role
    "h.e30ab.s",                                        \* length 1 mod 4
    "h.eyJyb2xlIjoic2VydmljZV9yb2xlIn0",                \* two segments
    "h.eyJyb2xlIjoiYW5vbiIsInJvbGUiOiJzZXJ2aWNlX3JvbGUifQ.s", \* role twice
    "h.eyJSb2xlIjoic2VydmljZV9yb2xlIn0.s",              \* {"Role":...}
    "h.eyJyb2xlIjpbInNlcnZpY2Vfcm9sZSJdfQ.s",           \* {"role":[...]}
    "h.IHsicm9sZSIgOiAic2VydmljZV9yb2xlIiB9IA.s",       \* with spaces
    "h. eyJyb2xlIjoic2Vy dmljZV9yb2xlIn0 .s",           \* base64 with spaces
    "h.eyJyb2xlIjoic2VydmljZV9yb2xlIiwieCI6Iv///yJ9.s", \* base64 "/"
    "h.eyJyb2xlIjoic2VydmljZV9yb2xlIiwieCI6Iv___yJ9.s", \* base64url "_"
    "h.eyJyb2xlIjoic2VydmljZVx1MDA1ZnJvbGUifQ.s",       \* "service\u005frole"
    "h.eyJhIjp7InJvbGUiOiJzZXJ2aWNlX3JvbGUifX0.s",      \* {"a":{"role":..}}
    "h.eyJyb2xlIjoic2VydmljZV9yb2xlIn14.s",             \* {...}x
    "h.eyJyb2xlIjoic2VydmljZV9yb2xlIix9.s",             \* {"role":"..",}
    "h.W3sicm9sZSI6InNlcnZpY2Vfcm9sZSJ9XQ.s" }          \* [{...}]

\* Session payloads of auth events (supabase-js Session objects); the access
\* token is whatever the backend at the given URL issued (payloads in
\* comments).
Sessions ==
  { [access_token |-> "h.eyJyb2xlIjoiYW5vbiJ9.s",        \* {"role":"anon"}
     user |-> [email |-> "a@x.io"]],
    [access_token |-> "h.eyJzdWIiOiI_Pz8ifQ.s",          \* base64url {"sub":"???"}
     user |-> [email |-> "b@x.io"]],
    [access_token |-> "h.e30",                           \* {} , two segments
     user |-> [email |-> "c@x.io"]],
    [access_token |-> "not-a-jwt",                       \* one segment
     user |-> [email |-> "d@x.io"]] }

\* AuthChangeEvent kinds of supabase-js.
AuthChangeEvents ==
  {"SIGNED_IN", "TOKEN_REFRESHED", "SIGNED_OUT", "USER_UPDATED",
   "PASSWORD_RECOVERY"}

\* checkForServiceRole on every string of the model, evaluated once.
GuardTable == [c \in GuardInputs \cup Urls |-> checkForServiceRole(c)]

(***************************************************************************)
(* The claims computation of SessionPanel (index.tsx 132-136):             *)
(* JSON.parse(atob(session.access_token.split(".")[1])).  An array read    *)
(* past the end is undefined, which atob converts to the string            *)
(* "undefined".  JSON.stringify of a parsed value returns a string and     *)
(* never throws; the completion is that of JSON.parse.                     *)
(***************************************************************************)
secondSegment(segments) ==
  IF Len(segments) >= 2 THEN segments[2] ELSE "undefined"

parseClaims(json) ==
  IF json.thrown THEN json ELSE JSONparse(json.value)

decodeClaims(token) == parseClaims(atob(secondSegment(split(token))))

\* decodeClaims on the access token of every session of the model.
ClaimsTable == [s \in Sessions |-> decodeClaims(s.access_token)]

URL_STORAGE_KEY == "SB_URL"

KEY_STORAGE_KEY == "SB_KEY"

RequiredMessage == "A valid Supabase Key and URL are required"

(***************************************************************************)
(* createClient(url, key) of @supabase/supabase-js: it returns a new       *)
(* client or throws an Error; which of the two is the library's choice.    *)
(***************************************************************************)
CreateClientOutcomes == {Return("client"), Throw("Invalid URL")}

(***************************************************************************)
(* State.                                                                  *)
(***************************************************************************)
VARIABLES
  window,        \* typeof window !== "undefined": a browser, with localStorage
  localStorage,  \* the two storage entries, each None or Some(string)
  mounted,       \* the Home component is mounted
  session,       \* useState session: None or Some(session)
  error,         \* useState error: None or Some(message)
  url,           \* useState url
  key,           \* useState key
  supabase,      \* the useMemo value: None or Some([id, url, key])
  construction,  \* what createClient did in the last useMemo run; None: not called
  nextClient,    \* clients constructed so far; a client's id is its number
  emitters,      \* per client id, the callbacks registered on its auth stream
  subscription,  \* the client id the effect's cleanup will unsubscribe; 0: none
  subscribeCalls,\* per client id, the calls of onAuthStateChange so far
  peakActive,    \* the most callbacks registered at one time, over all clients
  last           \* the step just taken and what it was given

vars ==
  <<window, localStorage, mounted, session, error, url, key, supabase,
    construction, nextClient, emitters, subscription, subscribeCalls,
    peakActive, last>>

ClientIds == 1..MaxClients

RECURSIVE SumOver(_, _)
SumOver(f, S) ==
  IF S = {} THEN 0
  ELSE LET x == CHOOSE y \in S : TRUE IN f[x] + SumOver(f, S \ {x})

ActiveCount(em) == SumOver(em, DOMAIN em)

Max(a, b) == IF a >= b THEN a ELSE b

(***************************************************************************)
(* getCachedItem (index.tsx 161-169).                                      *)
(***************************************************************************)
\* Faulty variant: the test for the server is inverted.
getCachedItemInverted(win, ls, name) ==
  IF win THEN None
  ELSE ls[name]

getCachedItem(win, ls, name) ==
  IF ~win THEN None      \* on the server
  ELSE ls[name]          \* localStorage.getItem(key) ?? undefined

(***************************************************************************)
(* The useMemo callback (index.tsx 181-193) for credentials k, u, with     *)
(* outcome what createClient does if it is called and id the next client   *)
(* id.  setError is a render-phase update of the same component.           *)
(***************************************************************************)
\* Faulty variant: the guard reads "!key && !url".
useMemoSupabaseBothEmpty(k, u, outcome, id) ==
  IF Falsy(k) /\ Falsy(u)
  THEN [supabase |-> None, error |-> Some(RequiredMessage),
        construction |-> None]
  ELSE IF outcome.thrown
       THEN [supabase |-> None, error |-> Some(outcome.message),
             construction |-> Some(outcome)]
       ELSE [supabase |-> Some([id |-> id, url |-> IF u = None THEN "" ELSE u[1],
                                key |-> IF k = None THEN "" ELSE k[1]]),
             error |-> None, construction |-> Some(outcome)]

\* Faulty variant: the catch clause does not call setError; with no error set
\* before, none is set after.
useMemoSupabaseSilentCatch(k, u, outcome, id) ==
  IF Falsy(k) \/ Falsy(u)
  THEN [supabase |-> None, error |-> Some(RequiredMessage),
        construction |-> None]
  ELSE IF outcome.thrown
       THEN [supabase |-> None, error |-> None,
             construction |-> Some(outcome)]
       ELSE [supabase |-> Some([id |-> id, url |-> u[1], key |-> k[1]]),
             error |-> None, construction |-> Some(outcome)]

useMemoSupabase(k, u, outcome, id) ==
  IF Falsy(k) \/ Falsy(u)
  THEN [supabase |-> None, error |-> Some(RequiredMessage),
        construction |-> None]
  ELSE IF outcome.thrown
       THEN [supabase |-> None, error |-> Some(outcome.message),
             construction |-> Some(outcome)]
       ELSE [supabase |-> Some([id |-> id, url |-> u[1], key |-> k[1]]),
             error |-> None, construction |-> Some(outcome)]

(***************************************************************************)
(* The callback given to onAuthStateChange (index.tsx 200-208): the        *)
(* session state after it ran on (event, payload) with state cur.          *)
(***************************************************************************)
\* Faulty variant: a session is set only while there is none.
authCallbackKeepFirst(cur, event, payload) ==
  LET afterSignIn ==
        IF /\ payload # None
           /\ cur = None
           /\ event \in {"SIGNED_IN", "TOKEN_REFRESHED"}
        THEN payload
        ELSE cur
  IN IF event = "SIGNED_OUT" THEN None ELSE afterSignIn

\* Faulty variant: the SIGNED_OUT test is the else branch of "if (session)".
authCallbackSignOutElse(cur, event, payload) ==
  IF payload # None
  THEN IF event \in {"SIGNED_IN", "TOKEN_REFRESHED"} THEN payload ELSE cur
  ELSE IF event = "SIGNED_OUT" THEN None ELSE cur

\* Faulty variant: every event that carries a session sets it.
authCallbackAnyEvent(cur, event, payload) ==
  LET afterSignIn == IF payload # None THEN payload ELSE cur
  IN IF event = "SIGNED_OUT" THEN None ELSE afterSignIn

authCallback(cur, event, payload) ==
  LET afterSignIn ==
        IF payload # None /\ event \in {"SIGNED_IN", "TOKEN_REFRESHED"}
        THEN payload
        ELSE cur
  IN IF event = "SIGNED_OUT" THEN None ELSE afterSignIn

(***************************************************************************)
(* The effect (index.tsx 195-213).  effectCleanup is the function the      *)
(* effect returned: subscription.unsubscribe() on the client it subscribed *)
(* to.  effectSetup is the effect body for the new memo value.             *)
(***************************************************************************)
\* Faulty variant: the effect returns no cleanup function.
effectCleanupNothing(em, sub) == em

effectCleanup(em, sub) ==
  IF sub = 0 THEN em ELSE [em EXCEPT ![sub] = em[sub] - 1]

effectSetup(em, sup) ==
  IF sup = None THEN em      \* guard: if (!supabase) return
  ELSE [em EXCEPT ![sup[1].id] = em[sup[1].id] + 1]

\* Faulty variant: the new subscription is made before the old one is cancelled.
runEffectSetupFirst(oldSup, newSup, em, sub, calls, peak) ==
  IF oldSup = newSup
  THEN [emitters |-> em, subscription |-> sub, subscribeCalls |-> calls,
        peakActive |-> peak]
  ELSE LET set == effectSetup(em, newSup)
           cleaned == effectCleanup(set, sub)
       IN [emitters |-> cleaned,
           subscription |-> IF newSup = None THEN 0 ELSE newSup[1].id,
           subscribeCalls |->
             IF newSup = None THEN calls
             ELSE [calls EXCEPT ![newSup[1].id] = calls[newSup[1].id] + 1],
           peakActive |->
             Max(peak, Max(ActiveCount(set), ActiveCount(cleaned)))]

\* React runs the previous effect's cleanup, then the effect, when a
\* dependency ([supabase, supabase?.auth]) changed.
runEffect(oldSup, newSup, em, sub, calls, peak) ==
  IF oldSup = newSup
  THEN [emitters |-> em, subscription |-> sub, subscribeCalls |-> calls,
        peakActive |-> peak]
  ELSE LET cleaned == effectCleanup(em, sub)
           set == effectSetup(cleaned, newSup)
       IN [emitters |-> set,
           subscription |-> IF newSup = None THEN 0 ELSE newSup[1].id,
           subscribeCalls |->
             IF newSup = None THEN calls
             ELSE [calls EXCEPT ![newSup[1].id] = calls[newSup[1].id] + 1],
           peakActive |->
             Max(peak, Max(ActiveCount(cleaned), ActiveCount(set)))]

(***************************************************************************)
(* The event handlers (index.tsx 215-231): what each does to the state     *)
(* and to localStorage ls for its argument.                                *)
(***************************************************************************)
\* Faulty variant: localStorage.setItem is called before the guard is consulted.
updateKeyHandlerPersistFirst(candidate, ls) ==
  LET isServiceRole == GuardTable[candidate]
  IN IF isServiceRole.thrown
     THEN [threw |-> TRUE, alerted |-> FALSE, setKey |-> None,
           localStorage |-> ls]
     ELSE [threw |-> FALSE, alerted |-> isServiceRole.value,
           setKey |-> IF isServiceRole.value THEN Some("")
                      ELSE Some(candidate),
           localStorage |->
             [ls EXCEPT ![KEY_STORAGE_KEY] = Some(candidate)]]

\* Faulty variant: the rejecting branch lacks setKey("") and return.
updateKeyHandlerNoReturn(candidate, ls) ==
  LET isServiceRole == GuardTable[candidate]
  IN IF isServiceRole.thrown
     THEN [threw |-> TRUE, alerted |-> FALSE, setKey |-> None,
           localStorage |-> ls]
     ELSE [threw |-> FALSE, alerted |-> isServiceRole.value,
           setKey |-> Some(candidate),
           localStorage |->
             [ls EXCEPT ![KEY_STORAGE_KEY] = Some(candidate)]]

updateKeyHandler(candidate, ls) ==
  LET isServiceRole == GuardTable[candidate]
  IN IF isServiceRole.thrown
     THEN [threw |-> TRUE, alerted |-> FALSE, setKey |-> None,
           localStorage |-> ls]
     ELSE IF isServiceRole.value
          THEN [threw |-> FALSE, alerted |-> TRUE, setKey |-> Some(""),
                localStorage |-> ls]
          ELSE [threw |-> FALSE, alerted |-> FALSE, setKey |-> Some(candidate),
                localStorage |->
                  [ls EXCEPT ![KEY_STORAGE_KEY] = Some(candidate)]]

\* Faulty variant: the value is set in memory and not written to storage.
updateUrlHandlerNoPersist(value, ls) ==
  [setUrl |-> Some(value), localStorage |-> ls]

updateUrlHandler(value, ls) ==
  [setUrl |-> Some(value),
   localStorage |-> [ls EXCEPT ![URL_STORAGE_KEY] = Some(value)]]

(***************************************************************************)
(* Mounting Home (index.tsx 171-213): the useState initialisers, the       *)
(* first evaluation of useMemo and, in the browser, the effect.            *)
(***************************************************************************)
mountFields(win, ls, outcome, id) ==
  LET u == getCachedItem(win, ls, URL_STORAGE_KEY)
      k == getCachedItem(win, ls, KEY_STORAGE_KEY)
      m == useMemoSupabase(k, u, outcome, id)
  IN [session |-> None, url |-> u, key |-> k, error |-> m.error,
      supabase |-> m.supabase, construction |-> m.construction]

NoStorage == [n \in {URL_STORAGE_KEY, KEY_STORAGE_KEY} |-> None]

\* What localStorage can hold when the page loads: nothing, or what earlier
\* runs of updateUrl and updateKey wrote (updateKey writes accepted keys only).
InitialStorages(win) ==
  IF ~win THEN {NoStorage}
  ELSE { [n \in {URL_STORAGE_KEY, KEY_STORAGE_KEY} |->
            IF n = URL_STORAGE_KEY THEN u ELSE k] :
           u \in {None} \cup
                 {Some(x) : x \in {y \in Urls : GuardTable[y] = Return(FALSE)}},
           k \in {None} \cup
                 {Some(x) : x \in {y \in Keys :
                                     GuardTable[y] = Return(FALSE)}} }

NoCallbacks == [c \in ClientIds |-> 0]

\* The state after mounting: f are the fields of mountFields, e the effect's.
InitMounted(win, ls, f, e) ==
  /\ window = win
  /\ localStorage = ls
  /\ mounted = TRUE
  /\ session = f.session
  /\ error = f.error
  /\ url = f.url
  /\ key = f.key
  /\ supabase = f.supabase
  /\ construction = f.construction
  /\ nextClient = IF f.supabase = None THEN 0 ELSE 1
  /\ emitters = e.emitters
  /\ subscription = e.subscription
  /\ subscribeCalls = e.subscribeCalls
  /\ peakActive = e.peakActive
  /\ last = [op |-> "mount"]

InitFields(win, ls, f) ==
  InitMounted(win, ls, f,
              runEffect(None, f.supabase, NoCallbacks, 0, NoCallbacks, 0))

Init ==
  \E win \in BOOLEAN, outcome \in CreateClientOutcomes :
    \E ls \in InitialStorages(win) :
      InitFields(win, ls, mountFields(win, ls, outcome, 1))

(***************************************************************************)
(* The re-render a state update causes, with the effects it commits.  k    *)
(* and u are the credential fields after the update.  useMemo recomputes   *)
(* only when [key, url] changed.  Both fields change only in the onChange  *)
(* handlers of the inputs; React 18 (Next 13: the page imports @next/font) *)
(* renders the update of such a discrete input event and runs its effects  *)
(* when the handler returns, before the task ends, so no auth event, which *)
(* a later task delivers, comes between the render and the effects.        *)
(***************************************************************************)
\* m: what useMemo computed; e: what the effect did.
Commit(m, e) ==
  /\ error' = m.error
  /\ supabase' = m.supabase
  /\ construction' = m.construction
  /\ nextClient' = IF m.supabase = None THEN nextClient ELSE nextClient + 1
  /\ emitters' = e.emitters
  /\ subscription' = e.subscription
  /\ subscribeCalls' = e.subscribeCalls
  /\ peakActive' = e.peakActive

Recompute(m) ==
  /\ m.supabase # None => nextClient < MaxClients
  /\ Commit(m, runEffect(supabase, m.supabase, emitters, subscription,
                         subscribeCalls, peakActive))

Rerender(k, u, outcome) ==
  IF k = key /\ u = url
  THEN UNCHANGED <<error, supabase, construction, nextClient, emitters,
                   subscription, subscribeCalls, peakActive>>
  ELSE Recompute(useMemoSupabase(k, u, outcome, nextClient + 1))

(***************************************************************************)
(* What Home renders (index.tsx 278-321): the two inputs, the error line,  *)
(* and the login or the session panel.                                     *)
(***************************************************************************)
view(sess, err, sup) ==
  [inputs |-> sess = None,
   errorLine |-> ~Falsy(err),
   authPanel |-> sup # None /\ sess = None,
   sessionPanel |-> sup # None /\ sess # None]

\* SessionPanel (index.tsx 97-141) for a session: what it displays, or the
\* throw of the claims computation, which nothing in the panel catches.
renderSessionPanel(sess) ==
  IF ClaimsTable[sess].thrown THEN ClaimsTable[sess]
  ELSE Return([email |-> sess.user.email, token |-> sess.access_token,
               claims |-> ClaimsTable[sess].value])

\* The render of Home below the inputs (index.tsx 316-321): the completion
\* of rendering the session panel when there is one, else nothing of it.
renderHome(sess, err, sup) ==
  IF view(sess, err, sup).sessionPanel THEN renderSessionPanel(sess[1])
  ELSE Return(None)

\* The inputs can be typed into: Home is on a page and renders them.
InputsShown == window /\ mounted /\ view(session, error, supabase).inputs

\* h: what updateKeyHandler did for the candidate.
KeyUpdated(candidate, h, outcome) ==
  /\ last' = [op |-> "updateKey", arg |-> candidate, alerted |-> h.alerted,
              threw |-> h.threw]
  /\ IF h.threw
     THEN UNCHANGED <<localStorage, key, error, supabase, construction,
                      nextClient, emitters, subscription, subscribeCalls,
                      peakActive>>
     ELSE /\ key' = h.setKey
          /\ localStorage' = h.localStorage
          /\ Rerender(h.setKey, url, outcome)

\* onChange of the "Anon Key" input (index.tsx 305).
updateKey(candidate) ==
  /\ InputsShown
  /\ \E outcome \in CreateClientOutcomes :
       KeyUpdated(candidate, updateKeyHandler(candidate, localStorage),
                  outcome)
  /\ UNCHANGED <<window, mounted, session, url>>

\* h: what updateUrlHandler did for the value.
UrlUpdated(h, outcome) ==
  /\ url' = h.setUrl
  /\ localStorage' = h.localStorage
  /\ Rerender(key, h.setUrl, outcome)

\* onChange of the "Supabase URL" input (index.tsx 291).
updateUrl(value) ==
  /\ InputsShown
  /\ \E outcome \in CreateClientOutcomes :
       UrlUpdated(updateUrlHandler(value, localStorage), outcome)
  /\ last' = [op |-> "updateUrl", arg |-> value]
  /\ UNCHANGED <<window, mounted, session, key>>

\* r: the completion of the render that follows the callback.  A throw of
\* the render is caught by no error boundary of Home: React takes Home off
\* the page, which runs the effect's cleanup.
EventRendered(r) ==
  IF r.thrown
  THEN /\ mounted' = FALSE
       /\ emitters' = effectCleanup(emitters, subscription)
       /\ subscription' = 0
       /\ peakActive' = Max(peakActive,
                            ActiveCount(effectCleanup(emitters, subscription)))
  ELSE UNCHANGED <<mounted, emitters, subscription, peakActive>>

\* sess: the session state after the callbacks ran; r: the render's
\* completion.  current: c is the handle of the Home on the page.
EventHandled(c, event, payload, sess, r) ==
  /\ session' = sess
  /\ EventRendered(r)
  /\ last' = [op |-> "event", client |-> c, event |-> event,
              payload |-> payload, fired |-> emitters[c] > 0,
              current |-> mounted /\ supabase # None /\ supabase[1].id = c,
              before |-> session, render |-> r]

EventCalledBack(c, event, payload, sess) ==
  EventHandled(c, event, payload, sess,
               IF emitters[c] > 0 THEN renderHome(sess, error, supabase)
               ELSE Return(None))

\* Client c emits (event, payload): the library calls the callbacks that are
\* registered on c at that moment, and Home renders its new state.
AuthEvent(c, event, payload) ==
  /\ window
  /\ c \in 1..nextClient
  /\ EventCalledBack(c, event, payload,
                     IF emitters[c] > 0
                     THEN authCallback(session, event, payload)
                     ELSE session)
  /\ UNCHANGED <<window, localStorage, error, url, key, supabase,
                 construction, nextClient, subscribeCalls>>

\* Faulty variant: the click also clears the session, before any event.
signOutClickOptimistic(sess) == None

\* onClick of the Logout button (index.tsx 110-112): client.auth.signOut() is
\* called and its promise dropped; the handler calls no state setter.  The
\* session state after the click, for the session state sess before it.
signOutClick(sess) == sess

\* The session panel, with its Logout button, is on the page.
SessionPanelShown ==
  window /\ mounted /\ view(session, error, supabase).sessionPanel

\* The Logout button is clicked.  What signOut makes the client emit is an
\* AuthEvent of a later task.
signOut ==
  /\ SessionPanelShown
  /\ session' = signOutClick(session)
  /\ last' = [op |-> "signOut", client |-> supabase[1].id, before |-> session]
  /\ UNCHANGED <<window, localStorage, mounted, error, url, key, supabase,
                 construction, nextClient, emitters, subscription,
                 subscribeCalls, peakActive>>

\* Faulty variant: the effect's cleanup also calls setSession(null).
UnmountClearsSession ==
  /\ window
  /\ mounted
  /\ mounted' = FALSE
  /\ session' = None
  /\ emitters' = effectCleanup(emitters, subscription)
  /\ subscription' = 0
  /\ peakActive' = Max(peakActive,
                       ActiveCount(effectCleanup(emitters, subscription)))
  /\ last' = [op |-> "unmount"]
  /\ UNCHANGED <<window, localStorage, error, url, key, supabase,
                 construction, nextClient, subscribeCalls>>

\* Home is torn down: React runs the effect's cleanup.
Unmount ==
  /\ window
  /\ mounted
  /\ mounted' = FALSE
  /\ emitters' = effectCleanup(emitters, subscription)
  /\ subscription' = 0
  /\ peakActive' = Max(peakActive,
                       ActiveCount(effectCleanup(emitters, subscription)))
  /\ last' = [op |-> "unmount"]
  /\ UNCHANGED <<window, localStorage, session, error, url, key, supabase,
                 construction, nextClient, subscribeCalls>>

\* f: the fields of the new Home.
Mounted(f) ==
  /\ f.supabase # None => nextClient < MaxClients
  /\ session' = f.session
  /\ url' = f.url
  /\ key' = f.key
  /\ Commit(f, runEffect(None, f.supabase, emitters, subscription,
                         subscribeCalls, peakActive))

\* The page is opened again: a new Home is mounted from localStorage.
Mount ==
  /\ window
  /\ ~mounted
  /\ \E outcome \in CreateClientOutcomes :
       Mounted(mountFields(window, localStorage, outcome, nextClient + 1))
  /\ mounted' = TRUE
  /\ last' = [op |-> "mount"]
  /\ UNCHANGED <<window, localStorage>>

Next ==
  \/ \E k \in Keys : updateKey(k)
  \/ \E u \in Urls : updateUrl(u)
  \/ \E c \in ClientIds, ev \in AuthChangeEvents,
        p \in {None} \cup {Some(x) : x \in Sessions} : AuthEvent(c, ev, p)
  \/ signOut
  \/ Unmount
  \/ Mount

Spec == Init /\ [][Next]_vars

\* The guard alone, on every shape of candidate.
GuardNext == \E k \in GuardInputs : updateKey(k)

GuardSpec == Init /\ [][GuardNext]_vars

(***************************************************************************)
(* Properties.                                                             *)
(***************************************************************************)
\* The role member of a parsed payload is the string "service_role".
RoleIsServiceRole(data) ==
  /\ data.t = "object"
  /\ \E i \in 1..Len(data.v) :
       /\ data.v[i][1] = Codes("role")
       /\ data.v[i][2] = JsonString(Codes("service_role"))
       /\ \A j \in (i + 1)..Len(data.v) : data.v[j][1] # Codes("role")

DecodesToServiceRole(json) ==
  /\ ~json.thrown
  /\ ~JSONparse(json.value).thrown
  /\ RoleIsServiceRole(JSONparse(json.value).value)

HasServiceRolePayload(segments) ==
  Len(segments) = 3 /\ DecodesToServiceRole(atob(segments[2]))

ServiceRoleCandidates ==
  {c \in GuardInputs : HasServiceRolePayload(split(c))}

\* C1: checkForServiceRole returns true exactly for a candidate of three
\* "."-separated segments whose middle segment base64-decodes and parses to
\* data whose role is "service_role"; for every other candidate it returns
\* false, and it never throws.
C1_GuardExact ==
  last.op = "updateKey" =>
    /\ ~last.threw
    /\ last.alerted <=> last.arg \in ServiceRoleCandidates

C1_Witness ==
  /\ last.op = "updateKey"
  /\ last.alerted
  /\ last.arg = "h.eyJyb2xlIjoiYW5vbiIsInJvbGUiOiJzZXJ2aWNlX3JvbGUifQ.s"

\* C2: updateKey with a candidate the guard classifies as privileged clears
\* the key field and leaves localStorage as it was; with any other candidate
\* the candidate becomes the key and is written to the key's storage entry.
C2_UpdateKeyGuarded ==
  [][last'.op = "updateKey" =>
       IF GuardTable[last'.arg] = Return(TRUE)
       THEN /\ key' = Some("")
            /\ key' # Some(last'.arg)
            /\ localStorage' = localStorage
       ELSE /\ key' = Some(last'.arg)
            /\ localStorage' =
                 [localStorage EXCEPT ![KEY_STORAGE_KEY] = Some(last'.arg)]
    ]_vars

C2_Witness ==
  /\ last.op = "updateKey"
  /\ last.arg = ServiceRoleJwt
  /\ last.alerted
  /\ key = Some("")
  /\ localStorage[KEY_STORAGE_KEY] = Some(AnonJwt)

IsPrivileged(field) == field # None /\ GuardTable[field[1]] = Return(TRUE)

\* C3 as stated: neither the endpoint URL nor the public key ever holds a
\* value that the guard classifies as privileged.
C3_NeitherFieldPrivileged == ~IsPrivileged(url) /\ ~IsPrivileged(key)

\* C3 as amended: the public key, in memory and in storage, never holds a
\* value that the guard classifies as privileged.
C3_KeyNeverPrivileged ==
  ~IsPrivileged(key) /\ ~IsPrivileged(localStorage[KEY_STORAGE_KEY])

C3_Witness ==
  /\ last.op = "updateKey"
  /\ last.alerted
  /\ IsPrivileged(url)
  /\ IsPrivileged(localStorage[URL_STORAGE_KEY])

ConstructionThrew == construction # None /\ construction[1].thrown

\* C4: the client handle exists if and only if both credential fields are
\* non-empty and createClient did not throw, and it is built from them.
C4_HandleIffCredentials ==
  /\ supabase # None <=> (~Falsy(key) /\ ~Falsy(url) /\ ~ConstructionThrew)
  /\ supabase # None =>
       supabase[1].url = url[1] /\ supabase[1].key = key[1]

C4_Witness ==
  /\ last.op = "updateUrl"
  /\ Falsy(url)
  /\ key = Some(AnonJwt)
  /\ supabase = None

\* C5: the error state is the fixed message when a credential is empty, the
\* thrown message when createClient threw, and absent when it returned; so
\* the error line is rendered exactly when there is no handle, and the login
\* panel only when there is one.
C5_ErrorMatchesOutcome ==
  /\ (Falsy(key) \/ Falsy(url)) => error = Some(RequiredMessage)
  /\ ConstructionThrew => error = Some(construction[1].message)
  /\ (construction # None /\ ~construction[1].thrown) => error = None
  /\ view(session, error, supabase).errorLine <=> supabase = None
  /\ view(session, error, supabase).authPanel => supabase # None

C5_Witness ==
  /\ ConstructionThrew
  /\ error = Some("Invalid URL")
  /\ supabase = None
  /\ ~view(session, error, supabase).authPanel

Delivered == last.op = "event" /\ last.fired

\* C6: a delivered SIGNED_IN or TOKEN_REFRESHED event with a session payload
\* leaves the session equal to that payload, whatever it was before.
C6_SignInSetsSession ==
  ( /\ Delivered
    /\ last.event \in {"SIGNED_IN", "TOKEN_REFRESHED"}
    /\ last.payload # None )
  => session = last.payload

C6_Witness ==
  /\ Delivered
  /\ last.event = "TOKEN_REFRESHED"
  /\ last.payload # None
  /\ last.before # None
  /\ last.before # last.payload
  /\ session = last.payload

\* C7: a new Home has no session, and after a delivered SIGNED_OUT event
\* there is no session, whatever the event carries and the session was.
C7_SignOutClearsSession ==
  /\ last.op = "mount" => session = None
  /\ (Delivered /\ last.event = "SIGNED_OUT") => session = None

C7_Witness ==
  /\ Delivered
  /\ last.event = "SIGNED_OUT"
  /\ last.payload # None
  /\ last.before # None
  /\ session = None

\* C8: a delivered event of another kind, or a SIGNED_IN or TOKEN_REFRESHED
\* event without a session payload, leaves the session as it was.
C8_OtherEventsIgnored ==
  ( /\ Delivered
    /\ \/ last.event \notin {"SIGNED_IN", "TOKEN_REFRESHED", "SIGNED_OUT"}
       \/ /\ last.event \in {"SIGNED_IN", "TOKEN_REFRESHED"}
          /\ last.payload = None )
  => session = last.before

C8_Witness ==
  /\ Delivered
  /\ last.event = "USER_UPDATED"
  /\ last.payload # None
  /\ last.before # None
  /\ last.before # last.payload
  /\ session = last.before

\* C9: at most one callback is registered at any time, on the current handle
\* of a mounted Home; every handle was subscribed exactly once; without a
\* handle, and after teardown, no callback is registered.
C9_SubscriptionLifecycle ==
  /\ ActiveCount(emitters) <= 1
  /\ peakActive <= 1
  /\ \A c \in ClientIds :
       /\ emitters[c] > 0 =>
            /\ mounted
            /\ supabase # None
            /\ supabase[1].id = c
            /\ subscription = c
       /\ subscribeCalls[c] = IF c <= nextClient THEN 1 ELSE 0
  /\ (mounted /\ supabase # None) => emitters[supabase[1].id] = 1

C9_Witness ==
  /\ mounted
  /\ supabase # None
  /\ supabase[1].id = 2
  /\ emitters[2] = 1
  /\ emitters[1] = 0
  /\ subscribeCalls[1] = 1

\* C10: an event emitted by a client that is not, when it emits, the current
\* handle of a mounted Home reaches no callback and leaves the session as it was.
C10_StaleHandleSilent ==
  (last.op = "event" /\ ~last.current)
  => (~last.fired /\ session = last.before)

C10_Witness ==
  /\ last.op = "event"
  /\ mounted
  /\ supabase # None
  /\ last.client < supabase[1].id
  /\ last.event = "TOKEN_REFRESHED"
  /\ last.payload # None
  /\ session = None


\* C11: clicking Logout leaves the session as it was, still present; while
\* Home lives, a present session becomes absent only in the step of a
\* delivered SIGNED_OUT event (a newly mounted Home starts without one).
C11_LogoutNotOptimistic ==
  [][ /\ last'.op = "signOut" => (session' = session /\ session' # None)
      /\ (session # None /\ session' = None /\ last'.op # "mount") =>
           (last'.op = "event" /\ last'.fired /\ last'.event = "SIGNED_OUT")
    ]_vars

C11_Witness ==
  /\ last.op = "signOut"
  /\ mounted
  /\ session # None
  /\ session = last.before
  /\ emitters[last.client] = 1


\* The access token whose claims the last event's render computed.
RenderedToken == session[1].access_token

SessionPanelRendered ==
  /\ last.op = "event"
  /\ last.fired
  /\ view(session, error, supabase).sessionPanel

ThreeSegments(token) == Len(split(token)) = 3

MiddleDecodes(token) ==
  /\ ~atob(split(token)[2]).thrown
  /\ ~JSONparse(atob(split(token)[2]).value).thrown

\* C12: decoding the claims of a token fails when the token does not have
\* exactly three "."-separated segments and when its middle segment is not
\* base64-decodable or not parseable; it succeeds, with the parsed middle
\* segment, only for a three-segment token whose payload decodes and parses.
C12_DecodeClaimsExact ==
  SessionPanelRendered =>
    IF ThreeSegments(RenderedToken) /\ MiddleDecodes(RenderedToken)
    THEN /\ ~last.render.thrown
         /\ last.render.value.claims =
              JSONparse(atob(split(RenderedToken)[2]).value).value
    ELSE last.render.thrown

\* C13: when the claims of the session's access token cannot be decoded,
\* the session panel is still rendered, without them, and Home stays on the
\* page with its session.
C13_MalformedTokenContained ==
  ( /\ SessionPanelRendered
    /\ ClaimsTable[session[1]].thrown )
  => ( /\ mounted
       /\ ~last.render.thrown
       /\ emitters[supabase[1].id] = 1 )


\* C14: the session is changed only by the auth-event callback: a step that
\* changes it is a delivered auth event (or the mount of a new Home, whose
\* session starts absent); updateKey, updateUrl, the recomputation of the
\* handle, subscribing, unsubscribing and the Logout click leave it as it was.
C14_SessionOwnedByCallback ==
  [][ /\ session' # session =>
           \/ last'.op = "event" /\ last'.fired
           \/ last'.op = "mount" /\ session' = None
      /\ last'.op \in {"updateKey", "updateUrl", "signOut", "unmount"} =>
           session' = session
    ]_vars

C14_Witness ==
  /\ last.op = "unmount"
  /\ session # None
  /\ supabase # None
  /\ subscription = 0
  /\ emitters[supabase[1].id] = 0


\* Home has just been mounted: its fields are what the initialisers read.
JustMounted == last.op = "mount" /\ mounted

KeyDiffersFromStored == key # localStorage[KEY_STORAGE_KEY]

\* C16: in the browser the URL field always equals the URL's storage entry,
\* and the key field equals the key's storage entry or is the empty string;
\* the two keys come to differ only in an updateKey step that rejected its
\* candidate, and a newly mounted Home has the stored key again.
C16_MemoryMatchesStorage ==
  /\ [](window =>
          /\ url = localStorage[URL_STORAGE_KEY]
          /\ KeyDiffersFromStored => key = Some(""))
  /\ [][ /\ (KeyDiffersFromStored' /\ ~KeyDiffersFromStored) =>
             /\ last'.op = "updateKey"
             /\ last'.alerted
             /\ localStorage' = localStorage
         /\ last'.op = "mount" =>
             /\ ~KeyDiffersFromStored'
             /\ localStorage' = localStorage
       ]_vars

C16_Witness ==
  /\ window
  /\ last.op = "updateUrl"
  /\ url = Some("https://x.supabase.co")
  /\ localStorage[URL_STORAGE_KEY] = url
  /\ key = Some("")
  /\ localStorage[KEY_STORAGE_KEY] = Some(AnonJwt)


\* C17: updateKey and updateUrl happen only while there is no session; so
\* while Home holds a session, no step but its teardown changes the
\* credential fields, the handle or the subscription.
C17_FrozenWhileSignedIn ==
  [][ /\ last'.op \in {"updateKey", "updateUrl"} => session = None
      /\ (mounted /\ session # None /\ last'.op # "unmount") =>
           /\ url' = url
           /\ key' = key
           /\ supabase' = supabase
           /\ subscription' = subscription
           /\ emitters' = emitters
    ]_vars

=============================================================================
